---------------------------- MODULE Spec2Model ----------------------------
(***************************************************************************)
(* Model of sites/hello-world-python/app.py: a greeting HTTP server.       *)
(*                                                                         *)
(*   line 11   port = int(os.environ.get("PORT", 3000))                    *)
(*   line 12   print(f"Server running on port {port}")                     *)
(*   line 13   HTTPServer(("", port), Handler).serve_forever()             *)
(*   line 4-9  class Handler(SimpleHTTPRequestHandler) with do_GET         *)
(*                                                                         *)
(* Several instances of the program run on one host and share its TCP port *)
(* space; clients connect to listening ports and send requests.            *)
(* Strings whose content matters (the PORT value, the printed line, the    *)
(* body) are sequences of one-character strings.                           *)
(* A client keeps its connection open until the server closes it; transport *)
(* failures (a peer that goes away in the middle of an exchange) are not   *)
(* modelled.                                                               *)
(***************************************************************************)
EXTENDS Integers, Sequences, FiniteSets, TLC

\* ------------------------------------------------------------- bounds --
\* Connections opened over a run, and requests sent over a run.
MaxConns == 2
MaxReqs == 2

\* Two instances of the program share the host.
Instances == {1, 2}
ConnIds == 1..MaxConns

\* ---------------------------------------------------- program constants --
DefaultPort == 3000
MaxPort == 65535
StatusOK == 200
StatusNotFound == 404
StatusNotImplemented == 501

\* The ports the kernel hands out when asked to bind port 0: the ephemeral
\* range, cut down to its first port.
EphemeralPorts == {32768}

\* ------------------------------------------------------ text conversion --
Digits == <<"0", "1", "2", "3", "4", "5", "6", "7", "8", "9">>

IsDigit(c) == \E k \in 1..10 : Digits[k] = c

DigitVal(c) == (CHOOSE k \in 1..10 : Digits[k] = c) - 1

IsSpace(c) == c \in {" ", "\t", "\n", "\r"}

RECURSIVE LStrip(_)
LStrip(s) == IF s # <<>> /\ IsSpace(Head(s)) THEN LStrip(Tail(s)) ELSE s

RECURSIVE RStrip(_)
RStrip(s) ==
    IF s # <<>> /\ IsSpace(s[Len(s)]) THEN RStrip(SubSeq(s, 1, Len(s) - 1)) ELSE s

Strip(s) == RStrip(LStrip(s))

\* Digits of an integer literal, most significant first; "_" may separate
\* two digits.  prev is TRUE when the previous character was a digit.
RECURSIVE ParseDigits(_, _, _)
ParseDigits(s, acc, prev) ==
    IF s = <<>> THEN [ok |-> prev, val |-> acc]
    ELSE IF IsDigit(Head(s)) THEN ParseDigits(Tail(s), acc * 10 + DigitVal(Head(s)), TRUE)
    ELSE IF Head(s) = "_" /\ prev THEN ParseDigits(Tail(s), acc, FALSE)
    ELSE [ok |-> FALSE, val |-> 0]

\* int(str): surrounding whitespace stripped, optional sign, decimal digits.
\* ok = FALSE stands for ValueError.
ParseInt(s) ==
    LET t == Strip(s)
        signed == t # <<>> /\ Head(t) \in {"+", "-"}
        neg == t # <<>> /\ Head(t) = "-"
        r == ParseDigits(IF signed THEN Tail(t) ELSE t, 0, FALSE)
    IN  [ok |-> r.ok, val |-> IF neg THEN 0 - r.val ELSE r.val]

RECURSIVE FormatNat(_)
FormatNat(n) ==
    IF n < 10 THEN <<Digits[n + 1]>>
    ELSE FormatNat(n \div 10) \o <<Digits[(n % 10) + 1]>>

\* str(int) as used by the f-string of line 12.
FormatInt(n) == IF n < 0 THEN <<"-">> \o FormatNat(0 - n) ELSE FormatNat(n)

IsSubstring(needle, hay) ==
    \E k \in 0..(Len(hay) - Len(needle)) :
        SubSeq(hay, k + 1, k + Len(needle)) = needle

\* -------------------------------------------------------- environment --
\* The PORT variable of a process: unset, or set to a string.
Unset == [set |-> FALSE, val |-> <<>>]

EnvStr(s) == [set |-> TRUE, val |-> s]

EnvValues ==
    { Unset,
      EnvStr(<<"8", "0", "8", "0">>),
      EnvStr(<<"a", "b", "c">>),
      EnvStr(<<"0">>),
      EnvStr(<<" ", "+", "7", "0", "_", "0", "0", "0", "\n">>) }

\* os.environ.get("PORT", 3000): the string when set, else the int default.
EnvGet(e) ==
    IF e.set THEN [isStr |-> TRUE, str |-> e.val, int |-> 0]
    ELSE [isStr |-> FALSE, str |-> <<>>, int |-> DefaultPort]

\* Variant: a value that does not parse falls back to the default.
ResolvePortOrDefault(e) ==
    LET x == EnvGet(e)
    IN  IF x.isStr /\ ParseInt(x.str).ok THEN ParseInt(x.str)
        ELSE [ok |-> TRUE, val |-> DefaultPort]

\* int(x) of line 11: parses a string, returns an int unchanged.
ResolvePort(e) ==
    LET x == EnvGet(e)
    IN  IF x.isStr THEN ParseInt(x.str) ELSE [ok |-> TRUE, val |-> x.int]

StartupPrefix ==
    <<"S", "e", "r", "v", "e", "r", " ", "r", "u", "n", "n", "i", "n", "g", " ",
      "o", "n", " ", "p", "o", "r", "t", " ">>

\* Variant: the line names the default port, not the resolved one.
StartupLineDefault(p) == StartupPrefix \o FormatInt(DefaultPort)

\* f"Server running on port {port}"
StartupLine(p) == StartupPrefix \o FormatInt(p)

\* ------------------------------------------------------------ requests --
V10 == <<1, 0>>
V11 == <<1, 1>>

VersionGE(a, b) == a[1] > b[1] \/ (a[1] = b[1] /\ a[2] >= b[2])

Req(m, p, v, c) == [method |-> m, path |-> p, version |-> v, connection |-> c]

\* The requests clients send.
Requests ==
    { Req("GET", "/", V11, "keep-alive"),
      Req("GET", "/anything/else", V10, ""),
      Req("HEAD", "/", V11, "keep-alive"),
      Req("POST", "/", V11, "") }

NoReq == Req("", "", V10, "")

\* ------------------------------------------------------------ handler --
\* Variant: the handler class sets protocol_version = "HTTP/1.1".
protocol_version_11 == V11

\* BaseHTTPRequestHandler.protocol_version, which Handler does not override.
protocol_version == V10

\* parse_request: whether the connection is closed after this request.
CloseAfter(r) ==
    LET byVersion == ~(VersionGE(r.version, V11) /\ VersionGE(protocol_version, V11))
    IN  IF r.connection = "close" THEN TRUE
        ELSE IF r.connection = "keep-alive" /\ VersionGE(protocol_version, V11) THEN FALSE
        ELSE byVersion

\* Variant: the body ends with a newline.
GreetingBodyNewline ==
    <<"<", "h", "1", ">", "H", "e", "l", "l", "o", " ", "f", "r", "o", "m", " ",
      "P", "y", "t", "h", "o", "n", "!", "<", "/", "h", "1", ">", "\n">>

GreetingBody ==
    <<"<", "h", "1", ">", "H", "e", "l", "l", "o", " ", "f", "r", "o", "m", " ",
      "P", "y", "t", "h", "o", "n", "!", "<", "/", "h", "1", ">">>

\* A response: the request it answers, the code that produced it, its parts.
Resp(r, by, st, hs, b) ==
    [req |-> r, by |-> by, status |-> st, headers |-> hs, body |-> b, done |-> FALSE]

\* The values of the headers named n.
HeaderValues(resp, n) ==
    { resp.headers[k][2] : k \in { j \in 1..Len(resp.headers) : resp.headers[j][1] = n } }

\* Variant: do_GET answers the root path only, 404 elsewhere.
do_GET_routed(r) ==
    IF r.path = "/"
    THEN [req |-> r, by |-> "do_GET", status |-> StatusOK,
          headers |-> << <<"Content-type", "text/html">> >>, body |-> GreetingBody, done |-> FALSE]
    ELSE [req |-> r, by |-> "send_error", status |-> StatusNotFound,
          headers |-> << <<"Connection", "close">> >>, body |-> <<"4", "0", "4">>, done |-> FALSE]

\* Handler.do_GET, lines 5-9: the head (lines 6-8) and the body (line 9).
do_GET(r) == Resp(r, "do_GET", StatusOK, << <<"Content-type", "text/html">> >>, GreetingBody)

\* The working directory the inherited file handler serves from.
cwd == {"app.py"}

IsDir(path) == path = "/"

IsFile(path) == \E f \in cwd : path = "/" \o f

\* SimpleHTTPRequestHandler.do_HEAD, inherited by Handler: the head of the
\* file or directory listing at the path, no body.
do_HEAD(r) ==
    IF IsDir(r.path)
    THEN Resp(r, "do_HEAD", StatusOK,
              << <<"Content-type", "text/html; charset=utf-8">>, <<"Content-Length", "listing">> >>, <<>>)
    ELSE IF IsFile(r.path)
    THEN Resp(r, "do_HEAD", StatusOK,
              << <<"Content-type", "application/octet-stream">>, <<"Content-Length", "file">>,
                 <<"Last-Modified", "file">> >>, <<>>)
    ELSE Resp(r, "send_error", StatusNotFound,
              << <<"Connection", "close">>, <<"Content-Type", "text/html;charset=utf-8">> >>, <<>>)

\* send_error(501) of handle_one_request for a method without a do_ method.
ErrorBody == <<"<", "!", "D", "O", "C", "T", "Y", "P", "E">>

Unsupported(r) ==
    Resp(r, "send_error", StatusNotImplemented,
         << <<"Connection", "close">>, <<"Content-Type", "text/html;charset=utf-8">> >>, ErrorBody)

\* The methods Handler has a do_ method for: do_GET of its own, and do_GET
\* (overridden) and do_HEAD of SimpleHTTPRequestHandler.
HandlerMethods == {"GET", "HEAD"}

\* handle_one_request: look up do_<method> and call it.
Dispatch(r) ==
    IF r.method \notin HandlerMethods THEN Unsupported(r)
    ELSE IF r.method = "GET" THEN do_GET(r)
    ELSE do_HEAD(r)

\* --------------------------------------------------------------- state --
VARIABLES
    env,              \* PORT in the environment of each process
    pc,               \* the step each process is at, or "exited" / "killed"
    exc,              \* the exception that ended the process, "" when none
    port,             \* the module variable port: [set, val]
    resolved,         \* how many times port has been assigned
    stdout,           \* the lines each process has printed
    sock,             \* the listening socket: [open, port]
    backlog,          \* connections completed by the kernel, not yet accepted
    cur,              \* the connection being handled, 0 when none
    curReq,           \* the request read from it
    close_connection, \* the handler's close_connection flag
    conns,            \* the connections
    wire,             \* the writes each server has made, in order
    acceptLog         \* the connections each server has accepted, in order

vars == <<env, pc, exc, port, resolved, stdout, sock, backlog, cur, curReq,
          close_connection, conns, wire, acceptLog>>

procVars == <<pc, exc, port, resolved, stdout, sock>>
reqVars == <<backlog, cur, curReq, close_connection, conns, wire, acceptLog>>

NoConn == [st |-> "unused", srv |-> 0, inbound |-> <<>>, nsent |-> 0, resp |-> <<>>]

Init ==
    /\ env \in [Instances -> EnvValues]
    /\ pc = [i \in Instances |-> "resolve"]
    /\ exc = [i \in Instances |-> ""]
    /\ port = [i \in Instances |-> [set |-> FALSE, val |-> 0]]
    /\ resolved = [i \in Instances |-> 0]
    /\ stdout = [i \in Instances |-> <<>>]
    /\ sock = [i \in Instances |-> [open |-> FALSE, port |-> 0]]
    /\ backlog = [i \in Instances |-> <<>>]
    /\ cur = [i \in Instances |-> 0]
    /\ curReq = [i \in Instances |-> NoReq]
    /\ close_connection = [i \in Instances |-> TRUE]
    /\ conns = [c \in ConnIds |-> NoConn]
    /\ wire = [i \in Instances |-> <<>>]
    /\ acceptLog = [i \in Instances |-> <<>>]

\* ------------------------------------------------------------- startup --
\* Variant: the server is constructed before the line is printed.
StartupOrderBindFirst == <<"resolve", "bind", "print", "accept">>

\* The statements of the module body, in order.
StartupOrder == <<"resolve", "print", "bind", "accept">>

After(step) == StartupOrder[(CHOOSE k \in 1..Len(StartupOrder) : StartupOrder[k] = step) + 1]

\* An uncaught exception ends the process.
Raise(i, e) ==
    /\ pc' = [pc EXCEPT ![i] = "exited"]
    /\ exc' = [exc EXCEPT ![i] = e]

\* line 11, int() succeeds
Resolve(i) ==
    /\ pc[i] = "resolve"
    /\ ResolvePort(env[i]).ok
    /\ port' = [port EXCEPT ![i] = [set |-> TRUE, val |-> ResolvePort(env[i]).val]]
    /\ resolved' = [resolved EXCEPT ![i] = @ + 1]
    /\ pc' = [pc EXCEPT ![i] = After("resolve")]
    /\ UNCHANGED <<env, exc, stdout, sock, reqVars>>

\* line 11, int() raises ValueError
ResolveFail(i) ==
    /\ pc[i] = "resolve"
    /\ ~ResolvePort(env[i]).ok
    /\ Raise(i, "ValueError")
    /\ UNCHANGED <<env, port, resolved, stdout, sock, reqVars>>

\* line 12
PrintLine(i) ==
    /\ pc[i] = "print"
    /\ stdout' = [stdout EXCEPT ![i] = Append(@, StartupLine(port[i].val))]
    /\ pc' = [pc EXCEPT ![i] = After("print")]
    /\ UNCHANGED <<env, exc, port, resolved, sock, reqVars>>

\* Variant: the listening socket shares its port (SO_REUSEPORT).
InUseShared(p) == FALSE

\* Ports held by a listening socket of a live process.
InUse(p) == \E j \in Instances : sock[j].open /\ sock[j].port = p

\* The ports bind() may give for the requested port p: p itself when it is
\* in range and free, any free ephemeral port when p is 0.
BindCandidates(p) ==
    IF p = 0 THEN { q \in EphemeralPorts : ~InUse(q) }
    ELSE IF p < 0 \/ p > MaxPort THEN {}
    ELSE IF InUse(p) THEN {}
    ELSE {p}

\* The error bind() raises when it gives no port.
BindError(p) ==
    IF p < 0 \/ p > MaxPort THEN "OverflowError" ELSE "OSError(EADDRINUSE)"

\* line 13, HTTPServer(("", port), Handler): socket, bind, listen
Bind(i) ==
    /\ pc[i] = "bind"
    /\ \E q \in BindCandidates(port[i].val) :
          sock' = [sock EXCEPT ![i] = [open |-> TRUE, port |-> q]]
    /\ pc' = [pc EXCEPT ![i] = After("bind")]
    /\ UNCHANGED <<env, exc, port, resolved, stdout, reqVars>>

\* line 13, bind() raises: the port is out of range or taken.  Nothing
\* catches it.
BindFail(i) ==
    /\ pc[i] = "bind"
    /\ BindCandidates(port[i].val) = {}
    /\ Raise(i, BindError(port[i].val))
    /\ UNCHANGED <<env, port, resolved, stdout, sock, reqVars>>

\* ------------------------------------------------------------- serving --
\* The process leaves: the kernel closes its listening socket and resets the
\* connections it had not finished.
ResetAll(cs, i) ==
    [d \in ConnIds |->
        IF cs[d].srv = i /\ cs[d].st \in {"queued", "accepted"}
        THEN [cs[d] EXCEPT !.st = "reset"] ELSE cs[d]]

Running(i) == pc[i] \notin {"exited", "killed"}

\* External termination of a process (a signal).
Kill(i) ==
    /\ Running(i)
    /\ pc' = [pc EXCEPT ![i] = "killed"]
    /\ sock' = [sock EXCEPT ![i].open = FALSE]
    /\ conns' = ResetAll(conns, i)
    /\ backlog' = [backlog EXCEPT ![i] = <<>>]
    /\ cur' = [cur EXCEPT ![i] = 0]
    /\ curReq' = [curReq EXCEPT ![i] = NoReq]
    /\ close_connection' = [close_connection EXCEPT ![i] = TRUE]
    /\ UNCHANGED <<env, exc, port, resolved, stdout, wire, acceptLog>>

\* A client connects to a listening port; the kernel queues the connection.
Connect(c, i) ==
    /\ conns[c].st = "unused"
    /\ \A d \in ConnIds : d < c => conns[d].st # "unused"
    /\ sock[i].open
    /\ conns' = [conns EXCEPT ![c] = [NoConn EXCEPT !.st = "queued", !.srv = i]]
    /\ backlog' = [backlog EXCEPT ![i] = Append(@, c)]
    /\ UNCHANGED <<env, procVars, cur, curReq, close_connection, wire, acceptLog>>

RECURSIVE SentUpTo(_)
SentUpTo(c) == IF c = 0 THEN 0 ELSE conns[c].nsent + SentUpTo(c - 1)

\* A client sends a request on its connection.
Send(c, r) ==
    /\ conns[c].st \in {"queued", "accepted"}
    /\ SentUpTo(MaxConns) < MaxReqs
    /\ conns' = [conns EXCEPT ![c].inbound = Append(@, r), ![c].nsent = @ + 1]
    /\ UNCHANGED <<env, procVars, backlog, cur, curReq, close_connection, wire, acceptLog>>

\* Variant: connections are accepted while a handler runs (a threading server
\* without a thread per handler).
CanAcceptAnytime(i) == pc[i] \in {"accept", "read", "dispatch", "body"}

\* HTTPServer is a plain TCPServer: serve_forever accepts the next connection
\* only when the handler of the previous one has returned.
CanAccept(i) == pc[i] = "accept"

\* Variant: handle_request() in place of serve_forever(): one connection.
serve_once == FALSE

\* serve_forever repeats until shutdown() is called, and nothing calls it.
serve_forever == TRUE

\* serve_forever: get_request, then the handler's setup and handle
Accept(i) ==
    /\ Running(i) /\ sock[i].open
    /\ CanAccept(i)
    /\ backlog[i] # <<>>
    /\ LET c == Head(backlog[i])
       IN  /\ conns' = [conns EXCEPT ![c].st = "accepted"]
           /\ cur' = [cur EXCEPT ![i] = c]
           /\ acceptLog' = [acceptLog EXCEPT ![i] = Append(@, c)]
    /\ backlog' = [backlog EXCEPT ![i] = Tail(@)]
    /\ close_connection' = [close_connection EXCEPT ![i] = TRUE]
    /\ curReq' = [curReq EXCEPT ![i] = NoReq]
    /\ pc' = [pc EXCEPT ![i] = "read"]
    /\ UNCHANGED <<env, exc, port, resolved, stdout, sock, wire>>

\* The handler is done with a request: handle() goes on with the next one of
\* the connection, or returns and shutdown_request closes the connection.
Finish(i, cs, close) ==
    /\ curReq' = [curReq EXCEPT ![i] = NoReq]
    /\ IF ~close
       THEN /\ conns' = cs
            /\ pc' = [pc EXCEPT ![i] = "read"]
            /\ UNCHANGED <<sock, backlog, cur>>
       ELSE /\ cur' = [cur EXCEPT ![i] = 0]
            /\ IF serve_forever
               THEN /\ conns' = [cs EXCEPT ![cur[i]].st = "closed"]
                    /\ pc' = [pc EXCEPT ![i] = "accept"]
                    /\ UNCHANGED <<sock, backlog>>
               ELSE /\ conns' = ResetAll([cs EXCEPT ![cur[i]].st = "closed"], i)
                    /\ pc' = [pc EXCEPT ![i] = "exited"]
                    /\ sock' = [sock EXCEPT ![i].open = FALSE]
                    /\ backlog' = [backlog EXCEPT ![i] = <<>>]

\* handle_one_request: read and parse the request line and headers
ReadRequest(i) ==
    /\ pc[i] = "read"
    /\ conns[cur[i]].inbound # <<>>
    /\ LET r == Head(conns[cur[i]].inbound)
       IN  /\ curReq' = [curReq EXCEPT ![i] = r]
           /\ close_connection' = [close_connection EXCEPT ![i] = CloseAfter(r)]
    /\ conns' = [conns EXCEPT ![cur[i]].inbound = Tail(@)]
    /\ pc' = [pc EXCEPT ![i] = "dispatch"]
    /\ UNCHANGED <<env, exc, port, resolved, stdout, sock, backlog, cur, wire, acceptLog>>

\* send_error sends "Connection: close", which sets close_connection.
ClosesConnection(resp) == "close" \in HeaderValues(resp, "Connection")

\* handle_one_request calls the do_ method: lines 6-8 (end_headers writes the
\* head), or the head of the inherited method or of the error response
SendHead(i) ==
    /\ pc[i] = "dispatch"
    /\ LET c == cur[i]
           resp == Dispatch(curReq[i])
           close == close_connection[i] \/ ClosesConnection(resp)
           head == [resp EXCEPT !.body = <<>>, !.done = (resp.body = <<>>)]
           cs == [conns EXCEPT ![c].resp = Append(@, head)]
       IN  /\ wire' = [wire EXCEPT ![i] = Append(@, <<c, "head">>)]
           /\ close_connection' = [close_connection EXCEPT ![i] = close]
           /\ IF resp.body = <<>>
              THEN Finish(i, cs, close)
              ELSE /\ conns' = cs
                   /\ pc' = [pc EXCEPT ![i] = "body"]
                   /\ UNCHANGED <<sock, backlog, cur, curReq>>
    /\ UNCHANGED <<env, exc, port, resolved, stdout, acceptLog>>

\* line 9, wfile.write (or the body of the error response), then the return
\* to handle()
WriteBody(i) ==
    /\ pc[i] = "body"
    /\ LET c == cur[i]
           n == Len(conns[c].resp)
           resp == Dispatch(curReq[i])
           cs == [conns EXCEPT ![c].resp[n].body = resp.body, ![c].resp[n].done = TRUE]
       IN  /\ wire' = [wire EXCEPT ![i] = Append(@, <<c, "body">>)]
           /\ Finish(i, cs, close_connection[i])
    /\ UNCHANGED <<env, exc, port, resolved, stdout, close_connection, acceptLog>>

ServerStep(i) ==
    \/ Accept(i) \/ ReadRequest(i) \/ SendHead(i) \/ WriteBody(i)

Next ==
    \/ \E i \in Instances : Resolve(i)
    \/ \E i \in Instances : ResolveFail(i)
    \/ \E i \in Instances : PrintLine(i)
    \/ \E i \in Instances : Bind(i)
    \/ \E i \in Instances : BindFail(i)
    \/ \E c \in ConnIds, i \in Instances : Connect(c, i)
    \/ \E c \in ConnIds, r \in Requests : Send(c, r)
    \/ \E i \in Instances : Accept(i)
    \/ \E i \in Instances : ReadRequest(i)
    \/ \E i \in Instances : SendHead(i)
    \/ \E i \in Instances : WriteBody(i)

Spec == Init /\ [][Next]_vars

\* The runs considered for progress: a process may be terminated from outside
\* at any moment, and the scheduler runs a server process whenever it can
\* take a step.  Progress of the serving loop does not depend on how PORT is
\* spelt, so these runs start from fewer environments.
LiveEnvValues == { Unset, EnvStr(<<"a", "b", "c">>) }

LiveInit == Init /\ env \in [Instances -> LiveEnvValues]

LiveNext == Next \/ \E i \in Instances : Kill(i)

LiveSpec == LiveInit /\ [][LiveNext]_vars /\ \A i \in Instances : WF_vars(ServerStep(i))

\* ============================================================== claims ==
\* The responses written so far: <<connection, index>>.
Responses == { ck \in ConnIds \X (1..MaxReqs) : ck[2] <= Len(conns[ck[1]].resp) }

RespAt(ck) == conns[ck[1]].resp[ck[2]]

\* The greeting as the specification spells it.
Greeting ==
    <<"<", "h", "1", ">", "H", "e", "l", "l", "o", " ", "f", "r", "o", "m", " ",
      "P", "y", "t", "h", "o", "n", "!", "<", "/", "h", "1", ">">>

IsGreeting(resp) ==
    /\ resp.status = 200
    /\ HeaderValues(resp, "Content-type") = {"text/html"}
    /\ resp.done => resp.body = Greeting

\* C1: every response to a GET request, whatever its path and whatever was
\* served before, has status 200, Content-type text/html and, once written
\* out, the greeting as its body.
C1_GetIsGreeting ==
    \A ck \in Responses : RespAt(ck).req.method = "GET" => IsGreeting(RespAt(ck))

\* C1 witness: a server that has already answered a request has answered a
\* GET for /anything/else in full.
C1_Witness ==
    \E ck \in Responses :
        /\ RespAt(ck).req.method = "GET" /\ RespAt(ck).req.path = "/anything/else"
        /\ RespAt(ck).done
        /\ Len(wire[conns[ck[1]].srv]) > 2

\* The process has executed line 11 with success / with an exception.
PortValid(i) == env[i].set /\ ParseInt(env[i].val).ok
PortUnparseable(i) == env[i].set /\ ~ParseInt(env[i].val).ok

\* C2 as stated: with PORT absent or unparseable the process gets past line
\* 11 with port 3000, and a socket it opens is on port 3000.
C2_Original ==
    \A i \in Instances :
        (~env[i].set \/ PortUnparseable(i)) =>
            /\ exc[i] # "ValueError"
            /\ pc[i] \notin {"resolve", "killed"} => port[i] = [set |-> TRUE, val |-> 3000]
            /\ sock[i].open => sock[i].port = 3000

\* C2 as amended: with PORT absent the port is 3000 and a socket the process
\* opens is on port 3000; with PORT set to a string that is not an integer
\* literal the process ends with ValueError at line 11, before it prints or
\* binds.
C2_Amended ==
    \A i \in Instances :
        /\ ~env[i].set =>
            /\ exc[i] # "ValueError"
            /\ pc[i] \notin {"resolve", "killed"} => port[i] = [set |-> TRUE, val |-> 3000]
            /\ sock[i].open => sock[i].port = 3000
        /\ PortUnparseable(i) =>
            /\ pc[i] \in {"resolve", "exited", "killed"}
            /\ pc[i] = "exited" => exc[i] = "ValueError"
            /\ ~port[i].set /\ stdout[i] = <<>> /\ ~sock[i].open
            /\ acceptLog[i] = <<>>

\* C2 witness: one process without PORT serves on 3000 and has answered a
\* request, another with an unparseable PORT has ended.
C2_Witness ==
    \E i, j \in Instances :
        /\ ~env[i].set /\ sock[i].open /\ sock[i].port = 3000 /\ wire[i] # <<>>
        /\ PortUnparseable(j) /\ pc[j] = "exited"

\* What C3 says of a process whose PORT is the integer n, but for the port
\* of the socket.
C3_Resolved(i, n) ==
    /\ resolved[i] <= 1
    /\ port[i].set <=> resolved[i] = 1
    /\ port[i].set => port[i].val = n
    /\ \A k \in 1..Len(stdout[i]) : IsSubstring(FormatInt(n), stdout[i][k])
    /\ pc[i] \in {"accept", "read", "dispatch", "body"} => stdout[i] # <<>>

\* C3 as stated: with PORT a valid integer n the port is resolved once, the
\* line contains n and the socket is bound on port n.
C3_Original ==
    \A i \in Instances :
        PortValid(i) =>
            LET n == ParseInt(env[i].val).val
            IN  /\ C3_Resolved(i, n)
                /\ sock[i].open => sock[i].port = n

\* C3 as amended: with PORT a valid integer n the port is resolved once and
\* the line contains n; a socket the process opens is on port n when n is
\* in 1..65535 and on a port of the kernel's choice, not 0, when n is 0; for
\* other n no socket is opened; the variable and the port of the open socket
\* never change.
C3_Amended ==
    /\ [](\A i \in Instances :
            PortValid(i) =>
                LET n == ParseInt(env[i].val).val
                IN  /\ C3_Resolved(i, n)
                    /\ sock[i].open /\ n # 0 => sock[i].port = n /\ n \in 1..65535
                    /\ sock[i].open /\ n = 0 => sock[i].port \in 1..65535)
    /\ [][\A i \in Instances :
            /\ port[i].set => port'[i] = port[i]
            /\ resolved[i] = 1 => resolved'[i] = 1
            /\ sock[i].open /\ sock'[i].open => sock'[i].port = sock[i].port
            /\ sock[i].open /\ Running(i)' => sock'[i] = sock[i]]_vars

\* C3 witness: a process started with PORT=8080 listens on 8080 and has
\* answered a request.
C3_Witness ==
    \E i \in Instances :
        /\ env[i] = EnvStr(<<"8", "0", "8", "0">>)
        /\ sock[i].open /\ sock[i].port = 8080
        /\ \E ck \in Responses : conns[ck[1]].srv = i /\ RespAt(ck).done

BindErrors == {"OSError(EADDRINUSE)", "OverflowError"}

\* C4: a port has one listener at most; a process whose bind failed has
\* ended for good without a socket, without having accepted or answered
\* anything; the failure leaves every other process as it was; and a process
\* at its bind whose port another one holds never gets past it.
C4_BindFailureFatal ==
    /\ [](\A i, j \in Instances :
            i # j /\ sock[i].open /\ sock[j].open => sock[i].port # sock[j].port)
    /\ [](\A i \in Instances :
            exc[i] \in BindErrors =>
                /\ pc[i] = "exited" /\ ~sock[i].open
                /\ acceptLog[i] = <<>> /\ wire[i] = <<>>
                /\ \A c \in ConnIds : conns[c].srv # i)
    /\ [][\A i \in Instances :
            /\ pc[i] = "exited" => pc'[i] = "exited" /\ sock'[i] = sock[i]
            /\ pc[i] = "bind" /\ pc'[i] = "exited" =>
                 /\ exc'[i] \in BindErrors
                 /\ \A j \in Instances \ {i} :
                      /\ pc'[j] = pc[j] /\ sock'[j] = sock[j] /\ backlog'[j] = backlog[j]
                      /\ cur'[j] = cur[j]
                 /\ conns' = conns
            /\ (pc[i] = "bind" /\ \E j \in Instances \ {i} :
                    sock[j].open /\ sock[j].port = port[i].val /\ port[i].val # 0)
                 => pc'[i] \in {"bind", "exited", "killed"}]_vars

\* C4 witness: a process has ended on the address being in use while the
\* holder of that port answers a request it accepted afterwards.
C4_Witness ==
    \E i, j \in Instances :
        /\ exc[j] = "OSError(EADDRINUSE)"
        /\ sock[i].open /\ sock[i].port = port[j].val
        /\ pc[i] = "body"

\* A server has read a GET request and is about to answer it.
Handling(i) == pc[i] = "dispatch" /\ curReq[i].method = "GET"

\* The step by which server i leaves the handling of a request leaves the
\* response to that request complete on its connection.
AnswersOnLeaving(i) ==
    pc[i] \in {"dispatch", "body"} /\ pc'[i] \notin {"dispatch", "body", "killed"} =>
        LET rs == conns'[cur[i]].resp
        IN  /\ rs # <<>>
            /\ rs[Len(rs)].done /\ rs[Len(rs)].req = curReq[i]
            /\ curReq[i].method = "GET" => IsGreeting(rs[Len(rs)])

\* C5: a process that listens ends only by external termination; a server
\* that handles a request leaves the handling, unless it is terminated from
\* outside first, with the response written in full (the greeting for a GET
\* request) and is then back at accepting.
C5_ServesForever ==
    /\ [][\A i \in Instances : sock[i].open /\ ~Running(i)' => pc'[i] = "killed"]_vars
    /\ [][\A i \in Instances : AnswersOnLeaving(i)]_vars
    /\ \A i \in Instances :
          (pc[i] \in {"dispatch", "body"}) ~> (pc[i] \in {"accept", "killed"})

\* C5 witness: a server that has answered one connection has read a GET
\* request from the next.
C5_Witness ==
    \E i \in Instances : \E c \in ConnIds :
        /\ Handling(i) /\ cur[i] = c
        /\ Len(acceptLog[i]) = 2 /\ wire[i] # <<>>

\* The requests the client has sent on connection c are all GET requests.
OnlyGets(c) ==
    /\ \A k \in 1..Len(conns[c].resp) : conns[c].resp[k].req.method = "GET"
    /\ \A k \in 1..Len(conns[c].inbound) : conns[c].inbound[k].method = "GET"

\* C6 as stated: the connection stays usable after a response, so when the
\* server is done with a connection every GET request sent on it has got
\* the greeting.
C6_Original ==
    \A c \in ConnIds :
        conns[c].st = "closed" /\ OnlyGets(c) =>
            /\ Len(conns[c].resp) = conns[c].nsent
            /\ \A k \in 1..Len(conns[c].resp) : IsGreeting(conns[c].resp[k])

\* C6 as amended: every GET request the server reads gets the identical
\* greeting, but the server closes the connection after each response:
\* a connection carries one response at most, requests sent after the first
\* stay unanswered, and repeated requests each need a connection of their
\* own.
C6_Amended ==
    /\ \A c \in ConnIds :
          /\ Len(conns[c].resp) <= 1
          /\ conns[c].resp # <<>> /\ conns[c].resp[1].done => conns[c].st \in {"closed", "reset"}
          /\ conns[c].st = "closed" => conns[c].resp # <<>>
    /\ \A ck, dl \in Responses :
          /\ RespAt(ck).req.method = "GET" /\ RespAt(dl).req.method = "GET"
          /\ RespAt(ck).done /\ RespAt(dl).done
          => /\ RespAt(ck).status = RespAt(dl).status
             /\ RespAt(ck).headers = RespAt(dl).headers
             /\ RespAt(ck).body = RespAt(dl).body

\* C6 witness: a client has sent two GET requests asking for keep-alive on
\* one connection; the server has answered the first and closed.
C6_Witness ==
    \E c \in ConnIds :
        /\ conns[c].nsent = 2 /\ OnlyGets(c)
        /\ conns[c].st = "closed"
        /\ Len(conns[c].resp) = 1 /\ conns[c].resp[1].done
        /\ conns[c].resp[1].req.connection = "keep-alive"
        /\ conns[c].resp[1].req.version = V11

\* C7 as stated: a request whose method is not GET only ever gets the
\* library's error response: 501 or 405 produced by send_error, never 200
\* and nothing from the file system.
C7_OnlyGetHandled ==
    \A ck \in Responses :
        RespAt(ck).req.method # "GET" =>
            /\ RespAt(ck).by = "send_error"
            /\ RespAt(ck).status \in {501, 405}
            /\ HeaderValues(RespAt(ck), "Content-Length") = {}

\* C8 as stated: the body written for a GET request is 28 bytes long and
\* does not end with a newline.
C8_Original ==
    \A ck \in Responses :
        RespAt(ck).req.method = "GET" /\ RespAt(ck).done =>
            /\ Len(RespAt(ck).body) = 28
            /\ RespAt(ck).body[Len(RespAt(ck).body)] # "\n"

\* C8 as amended: the body written for a GET request is 27 bytes long and
\* does not end with a newline.
C8_Amended ==
    \A ck \in Responses :
        RespAt(ck).req.method = "GET" /\ RespAt(ck).done =>
            /\ Len(RespAt(ck).body) = 27
            /\ RespAt(ck).body[Len(RespAt(ck).body)] # "\n"

\* C8 witness: the body of a GET response has been written.
C8_Witness ==
    \E ck \in Responses :
        RespAt(ck).req.method = "GET" /\ RespAt(ck).done /\ RespAt(ck).body # <<>>

AcceptIdx(i, c) == CHOOSE k \in 1..Len(acceptLog[i]) : acceptLog[i][k] = c

\* C9: a server handles one connection at a time: the only accepted
\* connection is the current one, a response that is not complete belongs to
\* it, and the writes of a server follow the order in which it accepted the
\* connections, so the parts of two responses never alternate.
C9_OneAtATime ==
    \A i \in Instances :
        /\ Cardinality({c \in ConnIds : conns[c].srv = i /\ conns[c].st = "accepted"}) <= 1
        /\ \A c \in ConnIds :
              conns[c].srv = i /\ conns[c].st = "accepted" => cur[i] = c
        /\ \A c \in ConnIds : \A k \in 1..Len(conns[c].resp) :
              conns[c].srv = i /\ ~conns[c].resp[k].done =>
                  \/ conns[c].st = "reset"
                  \/ cur[i] = c /\ pc[i] = "body" /\ k = Len(conns[c].resp)
        /\ \A k, l \in 1..Len(wire[i]) :
              k < l => AcceptIdx(i, wire[i][k][1]) <= AcceptIdx(i, wire[i][l][1])
        /\ \A k \in 1..Len(wire[i]) : \E l \in 1..Len(acceptLog[i]) : acceptLog[i][l] = wire[i][k][1]

\* C9 witness: a connection waits in the queue while the server is between
\* the head and the body of a response, after a full response to an earlier
\* connection.
C9_Witness ==
    \E i \in Instances :
        /\ pc[i] = "body" /\ Len(acceptLog[i]) = 2 /\ Len(wire[i]) = 3
        /\ wire[i][1][1] # wire[i][3][1]

\* C10: the line is printed before the bind is attempted: a process at or
\* past its bind, also one whose bind failed, has printed exactly one line,
\* naming its port; no process prints more than one line, and none prints
\* before its port is resolved.
C10_PrintBeforeBind ==
    \A i \in Instances :
        /\ Len(stdout[i]) <= 1
        /\ ~port[i].set => stdout[i] = <<>>
        /\ (pc[i] \in {"bind", "accept", "read", "dispatch", "body"}
              \/ sock[i].open \/ exc[i] \in BindErrors)
           => stdout[i] = <<StartupPrefix \o FormatInt(port[i].val)>>
        /\ port[i].set /\ pc[i] \notin {"print", "killed"} => Len(stdout[i]) = 1

\* C10 witness: a process has printed its line and ended on a failed bind,
\* so the port it names is not held by it.
C10_Witness ==
    \E i \in Instances :
        /\ exc[i] \in BindErrors /\ Len(stdout[i]) = 1 /\ ~sock[i].open
        /\ pc[i] = "exited"

=============================================================================
